---------------------------- MODULE Spec2Model ----------------------------
(***************************************************************************)
(* A model of the obsidian-linter plugin (src/main.ts): the rule pipeline  *)
(* lintText, the interactive path runLinterEditor with its diff-to-edit    *)
(* projection, the batch runners and loadSettings.                         *)
(*                                                                         *)
(* A text is a sequence of one-character strings.  The character "%"       *)
(* stands for a disable directive in a document; LF is the line break.     *)
(***************************************************************************)
EXTENDS Integers, Sequences, FiniteSets, TLC

VARIABLES
    scenario,       \* which specification's part of the plugin is exercised
    pc,             \* position of the exercised handler
    settings,       \* LinterPlugin.settings
    directive,      \* the aliases listed by a document's disable directive
    faulty,         \* the rule whose apply() throws on unparsable input
    oldText,        \* runLinterEditor: editor.getValue(); lintText: its input
    newText,        \* the text lintText returned (Undefined when it threw)
    lintLog,        \* the stages lintText executed, in order
    changes,        \* runLinterEditor: the diff ops of dmp.diff_main
    editorChange,   \* runLinterEditor: the EditorChange[] handed to the editor
    buffer,         \* the live editor buffer
    notices,        \* the Notice objects created, in order
    logged,         \* the logError entries, in order
    thrown,         \* the error that left the handler uncaught (None: none)
    activeFile,     \* workspace.getActiveFile(): the path of the active file
    runs,           \* how many times the exercised handler has run
    vault,          \* vault-wide run: file -> content in storage
    task,           \* vault-wide run: file -> state of its async task
    numberOfErrors, \* the numberOfErrors counter of a run over files
    lintedFiles,    \* the lintedFiles counter of runLinterAllFilesInFolder
    folder,         \* the folder of a folder run (None: no folder run)
    atDispatch,     \* the settings values when the run over files started
    original,       \* vault-wide run: file -> content when the run started
    writes,         \* file -> the texts vault.modify wrote to it, in order
    stored          \* loadSettings: the object loadData() resolved to

vars == <<scenario, pc, settings, directive, faulty, oldText, newText, lintLog,
          changes, editorChange, buffer, notices, logged, thrown, activeFile, runs,
          vault, task, numberOfErrors, lintedFiles, folder, atDispatch,
          original, writes, stored>>

----------------------------------------------------------------------------
(* Bounds of the model.                                                    *)

\* longest original / final text drawn for the diff-to-edit projection
MaxLen == 3
\* longest document text drawn as input of the pipeline
MaxDoc == 2
\* how many times a handler is run on one document
MaxRuns == 1
\* how many markdown files the vault holds
MaxFiles == 2
\* how many rules the stored data may hold option maps for
MaxStoredRules == 1

----------------------------------------------------------------------------
(* Texts.                                                                  *)

LF == "\n"
\* the value of a variable that was never assigned; not a text
Undefined == <<"undefined">>
None == "none"

Min(a, b) == IF a < b THEN a ELSE b
Max(a, b) == IF a > b THEN a ELSE b

StrOver(alphabet, n) == UNION {[1..k -> alphabet] : k \in 0..n}

RECURSIVE Concat(_)
Concat(ss) == IF ss = <<>> THEN <<>> ELSE Head(ss) \o Concat(Tail(ss))

Contains(t, c) == \E i \in 1..Len(t) : t[i] = c

StartsWith(t, p) == Len(p) <= Len(t) /\ SubSeq(t, 1, Len(p)) = p
EndsWith(t, p) == Len(p) <= Len(t) /\ SubSeq(t, Len(t) - Len(p) + 1, Len(t)) = p
Drop(t, n) == SubSeq(t, n + 1, Len(t))
Take(t, n) == SubSeq(t, 1, n)

\* String.prototype.indexOf: the first 0-based index of p in t, -1 when absent
IndexOf(t, p) ==
    LET hits == {i \in 0..(Len(t) - Len(p)) : SubSeq(t, i + 1, i + Len(p)) = p}
    IN  IF hits = {} THEN 0 - 1 ELSE CHOOSE i \in hits : \A j \in hits : i <= j

----------------------------------------------------------------------------
(* diff_match_patch.diff_main, the library call of runLinterEditor.        *)
(* A diff op is <<type, text>>.                                            *)

DIFF_DELETE == -1
DIFF_INSERT == 1
DIFF_EQUAL == 0

CommonPrefixLen(a, b) ==
    LET ks == {k \in 0..Min(Len(a), Len(b)) : Take(a, k) = Take(b, k)}
    IN  CHOOSE k \in ks : \A j \in ks : j <= k

CommonSuffixLen(a, b) ==
    LET ks == {k \in 0..Min(Len(a), Len(b)) :
                 SubSeq(a, Len(a) - k + 1, Len(a)) = SubSeq(b, Len(b) - k + 1, Len(b))}
    IN  CHOOSE k \in ks : \A j \in ks : j <= k

\* the text of the ops of the given types, concatenated
RECURSIVE SideText(_, _)
SideText(ops, types) ==
    IF ops = <<>> THEN <<>>
    ELSE (IF Head(ops)[1] \in types THEN Head(ops)[2] ELSE <<>>)
         \o SideText(Tail(ops), types)

\* The edit scripts of (t1, t2) that insert or delete at most k characters,
\* one character per op, in the order diff_cleanupMerge leaves: a delete
\* before the insert that follows it.  `last` is the previous op's type.
RECURSIVE ScriptsWithin(_, _, _, _)
ScriptsWithin(t1, t2, last, k) ==
    IF k < Len(t1) - Len(t2) \/ k < Len(t2) - Len(t1) THEN {}
    ELSE IF t1 = <<>> /\ t2 = <<>> THEN {<<>>}
    ELSE (IF t1 # <<>> /\ last # DIFF_INSERT
            THEN {<<<<DIFF_DELETE, <<Head(t1)>>>>>> \o s :
                    s \in ScriptsWithin(Tail(t1), t2, DIFF_DELETE, k - 1)}
            ELSE {})
         \cup
         (IF t2 # <<>>
            THEN {<<<<DIFF_INSERT, <<Head(t2)>>>>>> \o s :
                    s \in ScriptsWithin(t1, Tail(t2), DIFF_INSERT, k - 1)}
            ELSE {})
         \cup
         (IF t1 # <<>> /\ t2 # <<>> /\ Head(t1) = Head(t2)
            THEN {<<<<DIFF_EQUAL, <<Head(t1)>>>>>> \o s :
                    s \in ScriptsWithin(Tail(t1), Tail(t2), DIFF_EQUAL, k)}
            ELSE {})

\* first pass of diff_cleanupMerge: adjacent ops of one type become one op,
\* empty ops disappear
RECURSIVE MergeAdjacent(_)
MergeAdjacent(ops) ==
    IF ops = <<>> THEN <<>>
    ELSE LET rest == MergeAdjacent(Tail(ops))
             op == Head(ops)
         IN  IF op[2] = <<>> THEN rest
             ELSE IF rest # <<>> /\ rest[1][1] = op[1]
                    THEN <<<<op[1], op[2] \o rest[1][2]>>>> \o Tail(rest)
                    ELSE <<op>> \o rest

\* second pass of diff_cleanupMerge, from index p (1-based) on: a single edit
\* between two equalities is shifted over the equality it ends or starts with
RECURSIVE SlideFrom(_, _)
SlideFrom(ops, p) ==
    IF p >= Len(ops) THEN ops
    ELSE LET prev == ops[p - 1]
             cur == ops[p]
             next == ops[p + 1]
         IN  IF prev[1] = DIFF_EQUAL /\ next[1] = DIFF_EQUAL
               THEN IF EndsWith(cur[2], prev[2])
                      THEN SlideFrom(
                             SubSeq(ops, 1, p - 2)
                               \o <<<<cur[1], prev[2] \o Take(cur[2], Len(cur[2]) - Len(prev[2]))>>,
                                    <<DIFF_EQUAL, prev[2] \o next[2]>>>>
                               \o SubSeq(ops, p + 2, Len(ops)),
                             p + 1)
                    ELSE IF StartsWith(cur[2], next[2])
                      THEN SlideFrom(
                             SubSeq(ops, 1, p - 2)
                               \o <<<<DIFF_EQUAL, prev[2] \o next[2]>>,
                                    <<cur[1], Drop(cur[2], Len(next[2])) \o next[2]>>>>
                               \o SubSeq(ops, p + 2, Len(ops)),
                             p + 1)
                    ELSE SlideFrom(ops, p + 1)
               ELSE SlideFrom(ops, p + 1)

RECURSIVE diff_cleanupMerge(_)
diff_cleanupMerge(ops) ==
    LET merged == MergeAdjacent(ops)
        slid == SlideFrom(merged, 2)
    IN  IF slid = merged THEN merged ELSE diff_cleanupMerge(slid)

\* every well-formed edit script of (t1, t2): no empty op, no two adjacent
\* ops of one type
AllScripts(t1, t2) ==
    {MergeAdjacent(s) : s \in ScriptsWithin(t1, t2, DIFF_EQUAL, Len(t1) + Len(t2))}

\* the least number of characters an edit script of (t1, t2) inserts or deletes
EditDistance(t1, t2) ==
    CHOOSE k \in 0..(Len(t1) + Len(t2)) :
        /\ ScriptsWithin(t1, t2, DIFF_EQUAL, k) # {}
        /\ \A j \in 0..(k - 1) : ScriptsWithin(t1, t2, DIFF_EQUAL, j) = {}

\* the shortest edit scripts of (t1, t2): what diff_bisect_ searches for
ShortestScripts(t1, t2) ==
    {MergeAdjacent(s) : s \in ScriptsWithin(t1, t2, DIFF_EQUAL, EditDistance(t1, t2))}

\* diff_compute_ takes a fixed formula on these texts (one of them empty, the
\* shorter inside the longer, or the shorter a single character); on the
\* others it searches (half match, bisect)
Searches(t1, t2) ==
    LET long == IF Len(t1) > Len(t2) THEN t1 ELSE t2
        short == IF Len(t1) > Len(t2) THEN t2 ELSE t1
    IN  t1 # <<>> /\ t2 # <<>> /\ IndexOf(long, short) = 0 - 1 /\ Len(short) # 1

\* diff_halfMatch_ can split the texts at a common substring at least half
\* as long as the longer text; the script it leads to need not be a shortest
HalfMatches(t1, t2) ==
    LET long == IF Len(t1) > Len(t2) THEN t1 ELSE t2
        short == IF Len(t1) > Len(t2) THEN t2 ELSE t1
    IN  /\ Len(long) >= 4
        /\ Len(short) * 2 >= Len(long)
        /\ \E i \in 1..Len(short), j \in 1..Len(short) :
              /\ i <= j
              /\ (j - i + 1) * 2 >= Len(long)
              /\ IndexOf(long, SubSeq(short, i, j)) # 0 - 1

\* diff_compute_ on texts without common prefix or suffix, where it does not
\* search
diff_compute(t1, t2) ==
    LET long == IF Len(t1) > Len(t2) THEN t1 ELSE t2
        short == IF Len(t1) > Len(t2) THEN t2 ELSE t1
        typ == IF Len(t1) > Len(t2) THEN DIFF_DELETE ELSE DIFF_INSERT
        i == IndexOf(long, short)
    IN  IF t1 = <<>> THEN <<<<DIFF_INSERT, t2>>>>
        ELSE IF t2 = <<>> THEN <<<<DIFF_DELETE, t1>>>>
        ELSE IF i # 0 - 1
          THEN <<<<typ, Take(long, i)>>, <<DIFF_EQUAL, short>>,
                 <<typ, Drop(long, i + Len(short))>>>>
        ELSE <<<<DIFF_DELETE, t1>>, <<DIFF_INSERT, t2>>>>

\* The set of op sequences diff_main may return: the one the library computes
\* where its path is a fixed formula; where it searches, the shortest edit
\* scripts of the two texts, or every edit script when a half match applies.
diff_main(text1, text2) ==
    IF text1 = text2
      THEN IF text1 # <<>> THEN {<<<<DIFF_EQUAL, text1>>>>} ELSE {<<>>}
      ELSE LET np == CommonPrefixLen(text1, text2)
               a1 == Drop(text1, np)
               a2 == Drop(text2, np)
               ns == CommonSuffixLen(a1, a2)
               m1 == Take(a1, Len(a1) - ns)
               m2 == Take(a2, Len(a2) - ns)
               pre == <<<<DIFF_EQUAL, Take(text1, np)>>>>
               suf == <<<<DIFF_EQUAL, Drop(a1, Len(a1) - ns)>>>>
           IN  IF Searches(m1, m2)
                 THEN IF HalfMatches(m1, m2) THEN AllScripts(text1, text2)
                      ELSE ShortestScripts(text1, text2)
               ELSE {diff_cleanupMerge(pre \o diff_compute(m1, m2) \o suf)}

----------------------------------------------------------------------------
(* The Edit Projector: the forEach of runLinterEditor.                     *)

\* endOfDocument(doc): doc.split(LF), then the last line's index and length
endOfDocument(doc) ==
    LET breaks == {i \in 1..Len(doc) : doc[i] = LF}
        lastBreak == IF breaks = {} THEN 0
                     ELSE CHOOSE i \in breaks : \A j \in breaks : j <= i
    IN  [line |-> Cardinality(breaks), ch |-> Len(doc) - lastBreak]

\* ProjectStep taking an insertion's position after extending curText
ProjectStep_FromAfterInsert(st, change) ==
    LET curText == st[1]
        ec == st[2]
        type == change[1]
        value == change[2]
    IN  IF type = DIFF_INSERT
          THEN <<curText \o value,
                 Append(ec, [text |-> value, from |-> endOfDocument(curText \o value)])>>
        ELSE IF type = DIFF_DELETE
          THEN <<curText,
                 Append(ec, [text |-> <<>>, from |-> endOfDocument(curText),
                             to |-> endOfDocument(curText \o value)])>>
        ELSE <<curText \o value, ec>>

\* ProjectStep with a deletion appended to curText
ProjectStep_DeleteCommits(st, change) ==
    LET curText == st[1]
        ec == st[2]
        type == change[1]
        value == change[2]
    IN  IF type = DIFF_INSERT
          THEN <<curText \o value,
                 Append(ec, [text |-> value, from |-> endOfDocument(curText)])>>
        ELSE IF type = DIFF_DELETE
          THEN <<curText \o value,
                 Append(ec, [text |-> <<>>, from |-> endOfDocument(curText),
                             to |-> endOfDocument(curText \o value)])>>
        ELSE <<curText \o value, ec>>

\* one iteration of changes.forEach: the state is <<curText, editorChange>>
ProjectStep(st, change) ==
    LET curText == st[1]
        ec == st[2]
        type == change[1]
        value == change[2]
    IN  IF type = DIFF_INSERT
          THEN <<curText \o value,
                 Append(ec, [text |-> value, from |-> endOfDocument(curText)])>>
        ELSE IF type = DIFF_DELETE
          THEN LET start == endOfDocument(curText)
                   tempText == curText \o value
                   end == endOfDocument(tempText)
               IN  <<curText, Append(ec, [text |-> <<>>, from |-> start, to |-> end])>>
        ELSE <<curText \o value, ec>>

RECURSIVE ProjectFold(_, _)
ProjectFold(st, chs) ==
    IF chs = <<>> THEN st ELSE ProjectFold(ProjectStep(st, Head(chs)), Tail(chs))

\* the EditorChange[] built from the diff ops
Project(chs) == ProjectFold(<<<<>>, <<>>>>, chs)[2]
\* curText after the loop
ProjectCurText(chs) == ProjectFold(<<<<>>, <<>>>>, chs)[1]

RECURSIVE SumLen(_, _)
SumLen(chs, type) ==
    IF chs = <<>> THEN 0
    ELSE (IF Head(chs)[1] = type THEN Len(Head(chs)[2]) ELSE 0) + SumLen(Tail(chs), type)

charsAdded(chs) == SumLen(chs, DIFF_INSERT)
charsRemoved(chs) == SumLen(chs, DIFF_DELETE)

----------------------------------------------------------------------------
(* The host editor: editor.transaction({changes}).  Every position of the  *)
(* batch addresses the document as it is before the batch.                 *)

\* Editor.posToOffset: the offset of a line/column position, kept inside the
\* line and the document
posToOffset(doc, pos) ==
    LET breaks == {i \in 1..Len(doc) : doc[i] = LF}
        \* offset of the start of line n: just after the n-th line break
        nth(n) == CHOOSE i \in breaks : Cardinality({j \in breaks : j <= i}) = n
        lineStart == IF pos.line = 0 THEN 0 ELSE nth(pos.line)
        lineEnd == IF pos.line >= Cardinality(breaks) THEN Len(doc)
                   ELSE nth(pos.line + 1) - 1
    IN  IF pos.line > Cardinality(breaks) THEN Len(doc)
        ELSE Min(lineStart + pos.ch, lineEnd)

ChangeFrom(doc, c) == posToOffset(doc, c.from)
ChangeTo(doc, c) == IF "to" \in DOMAIN c THEN posToOffset(doc, c.to) ELSE ChangeFrom(doc, c)

\* the texts the batch inserts at offset p, in the order of the batch
RECURSIVE InsertedAt(_, _, _)
InsertedAt(doc, ec, p) ==
    IF ec = <<>> THEN <<>>
    ELSE (IF ChangeFrom(doc, Head(ec)) = p THEN Head(ec).text ELSE <<>>)
         \o InsertedAt(doc, Tail(ec), p)

\* the character at offset p (the p+1st) is inside a replaced range
Replaced(doc, ec, p) ==
    \E k \in 1..Len(ec) : ChangeFrom(doc, ec[k]) <= p /\ p < ChangeTo(doc, ec[k])

RECURSIVE TransactionFrom(_, _, _)
TransactionFrom(doc, ec, p) ==
    IF p > Len(doc) THEN <<>>
    ELSE InsertedAt(doc, ec, p)
         \o (IF p < Len(doc) /\ ~Replaced(doc, ec, p) THEN <<doc[p + 1]>> ELSE <<>>)
         \o TransactionFrom(doc, ec, p + 1)

transaction(doc, ec) == TransactionFrom(doc, ec, 0)


----------------------------------------------------------------------------
(* The rule registry and the rules.  main.ts imports them; a rule is an    *)
(* opaque function of the text and its options that may throw.  The        *)
(* registry here holds the four rules lintText calls by name and two       *)
(* generic ones; their bodies are stand-ins that change, restore, stamp    *)
(* and refuse texts.                                                       *)

FormatTagsInYaml == "format-tags-in-yaml"
EscapeYamlSpecialCharacters == "escape-yaml-special-characters"
YamlTimestamp == "yaml-timestamp"
YamlKeySort == "yaml-key-sort"
GenericA == "generic-a"
GenericB == "generic-b"

\* the registry, in registry order
rules == <<FormatTagsInYaml, GenericA, YamlTimestamp, EscapeYamlSpecialCharacters,
           GenericB, YamlKeySort>>
Aliases == {rules[i] : i \in 1..Len(rules)}

hasSpecialExecutionOrder(rule) ==
    rule \in {FormatTagsInYaml, EscapeYamlSpecialCharacters, YamlTimestamp, YamlKeySort}

enabledOptionName(rule) == "enabled"

\* rule.getDefaultOptions(): every option of the rule with its default
getDefaultOptions(rule) ==
    IF rule = YamlTimestamp
      THEN [enabled |-> FALSE, dateModified |-> TRUE]
      ELSE [enabled |-> FALSE]

\* getDisabledRules(text): the aliases a disable directive of the text lists
getDisabledRules(text, dir) == IF Contains(text, "%") THEN dir ELSE {}

RemoveAll(t, c) == SelectSeq(t, LAMBDA x : x # c)
ReplaceAll(t, c, d) == [i \in 1..Len(t) |-> IF t[i] = c THEN d ELSE t[i]]

YAMLException == "YAMLException"
OtherError == "Error"

\* rule.apply(text, options): [text, err]; err is None unless the rule throws.
\* The rule named by `bad` cannot parse a text holding "b".
RuleApply(rule, text, extra, bad) ==
    IF rule = bad /\ Contains(text, "b")
      THEN [text |-> text, err |-> IF rule = GenericB THEN OtherError ELSE YAMLException]
    ELSE [err |-> None,
          text |->
            CASE rule = FormatTagsInYaml -> RemoveAll(text, "%")
              [] rule = EscapeYamlSpecialCharacters -> ReplaceAll(text, "b", "a")
              [] rule = GenericA ->
                    IF text # <<>> /\ ~Contains(text, "%")
                      THEN <<"%">> \o text ELSE text
              [] rule = GenericB ->
                    IF Len(text) >= 2 /\ text[Len(text)] = text[Len(text) - 1]
                      THEN Take(text, Len(text) - 1) ELSE text
              [] rule = YamlTimestamp ->
                    IF extra.alreadyModified THEN Append(text, "a")
                    ELSE IF text = <<>> THEN <<"a">> ELSE text
              [] rule = YamlKeySort ->
                    LET sorted == IF Len(text) >= 2 /\ text[1] = "a" /\ text[2] = "%"
                                    THEN <<"%", "a">> \o Drop(text, 2) ELSE text
                    IN  IF sorted # text /\ extra.yamlTimestampDateModifiedEnabled
                          THEN Append(sorted, "a") ELSE sorted]

\* rule.getOptions(settings)
getRuleOptions(rule, s) == s.ruleConfigs[rule]

\* RuleBuilderBase.applyIfEnabledBase: [text, enabled, err]
applyIfEnabledBase(rule, text, s, extra, bad) ==
    IF getRuleOptions(rule, s)[enabledOptionName(rule)]
      THEN LET r == RuleApply(rule, text, extra, bad)
           IN  [text |-> r.text, enabled |-> TRUE, err |-> r.err]
      ELSE [text |-> text, enabled |-> FALSE, err |-> None]

\* RuleBuilder.applyIfEnabled: a rule listed in disabledRules is skipped
applyIfEnabled(rule, text, s, disabledRules, extra, bad) ==
    IF rule \in disabledRules
      THEN [text |-> text, enabled |-> FALSE, err |-> None]
      ELSE applyIfEnabledBase(rule, text, s, extra, bad)

----------------------------------------------------------------------------
(* lintText.  The state threaded through the stages is                     *)
(*   [text, err, log, ts]: newText, the error thrown (None while none),    *)
(*   the stages executed so far, isYamlTimestampEnabled.                   *)
(* `exists` is the set of registered rules (Aliases in the plugin); `dir`  *)
(* and `bad` are the document's directive and the rule that cannot parse.  *)

NoExtra == <<>>

\* one executed stage: the call site, the disabled set it consulted, the
\* text it was handed and the extra options it was called with
LogEntry(stage, disabledRules, text, extra) ==
    [stage |-> stage, dis |-> disabledRules, input |-> text, extra |-> extra]

\* a call of <Rule>.applyIfEnabled(newText, settings, disabledRules, extra)
SpecialStage(st, rule, s, disabledRules, extra, exists, bad) ==
    IF st.err # None \/ rule \notin exists THEN st
    ELSE LET r == applyIfEnabled(rule, st.text, s, disabledRules, extra, bad)
         IN  [st EXCEPT !.text = r.text, !.err = r.err,
                        !.log = Append(@, LogEntry(rule, disabledRules, st.text, extra)),
                        !.ts = IF rule = YamlTimestamp THEN r.enabled ELSE @]

\* LoopStep with the check of the disabled-rule set left out
LoopStep_IgnoresDisabled(st, rule, s, disabledRules, exists, bad) ==
    IF st.err # None \/ rule \notin exists THEN st
    ELSE IF hasSpecialExecutionOrder(rule) THEN st
    ELSE LET r == applyIfEnabledBase(rule, st.text, s, NoExtra, bad)
         IN  [st EXCEPT !.text = r.text, !.err = r.err,
                        !.log = Append(@, LogEntry(rule, disabledRules, st.text, NoExtra))]

\* one iteration of `for (const rule of rules)`
LoopStep(st, rule, s, disabledRules, exists, bad) ==
    IF st.err # None \/ rule \notin exists THEN st
    ELSE IF rule \in disabledRules THEN st
    ELSE IF hasSpecialExecutionOrder(rule) THEN st
    ELSE LET r == applyIfEnabledBase(rule, st.text, s, NoExtra, bad)
         IN  [st EXCEPT !.text = r.text, !.err = r.err,
                        !.log = Append(@, LogEntry(rule, disabledRules, st.text, NoExtra))]

\* GenericLoop going through the registry from its last rule to its first
RECURSIVE GenericLoop_Reversed(_, _, _, _, _, _)
GenericLoop_Reversed(st, i, s, disabledRules, exists, bad) ==
    IF i > Len(rules) THEN st
    ELSE CHOOSE end \in
           {GenericLoop_Reversed(next, i + 1, s, disabledRules, exists, bad) :
              next \in {LoopStep(st, rules[Len(rules) + 1 - i], s, disabledRules,
                                  exists, bad)}} : TRUE

RECURSIVE GenericLoop(_, _, _, _, _, _)
GenericLoop(st, i, s, disabledRules, exists, bad) ==
    IF i > Len(rules) THEN st
    ELSE CHOOSE end \in
           {GenericLoop(next, i + 1, s, disabledRules, exists, bad) :
              next \in {LoopStep(st, rules[i], s, disabledRules, exists, bad)}} : TRUE

\* line 244: the disabled-rule set of the pipeline's input
ScanStage(text, dir) ==
    [text |-> text, err |-> None, ts |-> FALSE,
     log |-> <<LogEntry("getDisabledRules", getDisabledRules(text, dir), text, NoExtra)>>]

\* lines 246-249: the two pre-rules
PreStages(st, s, disabledRules, exists, bad) ==
    SpecialStage(
        SpecialStage(st, FormatTagsInYaml, s, disabledRules, NoExtra, exists, bad),
        EscapeYamlSpecialCharacters, s, disabledRules, NoExtra, exists, bad)

\* TimestampStage telling the rule the text was modified whatever it is
TimestampStage_AlwaysModified(st, old, s, disabledRules, exists, bad) ==
    SpecialStage(st, YamlTimestamp, s, disabledRules,
                 [alreadyModified |-> TRUE], exists, bad)

\* TimestampStage comparing the lengths of the two texts only
TimestampStage_LengthOnly(st, old, s, disabledRules, exists, bad) ==
    SpecialStage(st, YamlTimestamp, s, disabledRules,
                 [alreadyModified |-> Len(old) # Len(st.text)], exists, bad)

\* lines 275-285: the timestamp rule
TimestampStage(st, old, s, disabledRules, exists, bad) ==
    SpecialStage(st, YamlTimestamp, s, disabledRules,
                 [alreadyModified |-> old # st.text], exists, bad)

\* KeySortStage scanning the text it is handed for disabled rules again
KeySortStage_Rescans(st, s, disabledRules, exists, bad) ==
    SpecialStage(st, YamlKeySort, s, getDisabledRules(st.text, directive),
                 [yamlTimestampDateModifiedEnabled |->
                     st.ts /\ getRuleOptions(YamlTimestamp, s).dateModified],
                 exists, bad)

\* lines 287-295: the key-sort rule
KeySortStage(st, s, disabledRules, exists, bad) ==
    SpecialStage(st, YamlKeySort, s, disabledRules,
                 [yamlTimestampDateModifiedEnabled |->
                     st.ts /\ getRuleOptions(YamlTimestamp, s).dateModified],
                 exists, bad)

\* LintRun with the timestamp rule called ahead of the generic loop
LintRun_TimestampFirst(old, s, dir, bad, exists) ==
    LET disabledRules == getDisabledRules(old, dir)
    IN  CHOOSE s4 \in
          {KeySortStage(s3, s, disabledRules, exists, bad) :
             s3 \in {GenericLoop(s2, 1, s, disabledRules, exists, bad) :
                s2 \in {TimestampStage(s1, old, s, disabledRules, exists, bad) :
                   s1 \in {PreStages(s0, s, disabledRules, exists, bad) :
                      s0 \in {ScanStage(old, dir)}}}}} : TRUE

\* the stages of lintText in the order of lines 244-295; the state each
\* stage hands on is bound once: s0 after the scan, s1 after the pre-rules,
\* s2 after the loop, s3 after the timestamp rule, s4 after the key-sort rule
LintRun(old, s, dir, bad, exists) ==
    LET disabledRules == getDisabledRules(old, dir)
    IN  CHOOSE s4 \in
          {KeySortStage(s3, s, disabledRules, exists, bad) :
             s3 \in {TimestampStage(s2, old, s, disabledRules, exists, bad) :
                s2 \in {GenericLoop(s1, 1, s, disabledRules, exists, bad) :
                   s1 \in {PreStages(s0, s, disabledRules, exists, bad) :
                      s0 \in {ScanStage(old, dir)}}}}} : TRUE

\* lintText(oldText, file) of the plugin
lintText(old, s, dir, bad) == LintRun(old, s, dir, bad, Aliases)

----------------------------------------------------------------------------
(* Values of the variables a specification does not exercise.              *)

\* lines 181-188: the settings object before any rule or stored value is merged
InitialSettings ==
    [ruleConfigs |-> <<>>, lintOnSave |-> FALSE, displayChanged |-> TRUE,
     foldersToIgnore |-> <<>>, linterLocale |-> "system-default",
     logLevel |-> "ERROR"]

IdleLint ==
    /\ settings = InitialSettings /\ directive = {} /\ faulty = None /\ lintLog = <<>>
ActiveFile == "note.md"
IdleEditor ==
    /\ notices = <<>> /\ logged = <<>> /\ thrown = None /\ runs = 0
    /\ activeFile = ActiveFile
IdleBatch ==
    /\ vault = <<>> /\ task = <<>> /\ numberOfErrors = 0
    /\ lintedFiles = 0 /\ folder = None /\ atDispatch = Undefined
    /\ original = <<>> /\ writes = <<>>
\* loadData() resolving to null: the plugin has no data file
NoData == [present |-> FALSE, data |-> <<>>]
IdleLoad == stored = NoData

----------------------------------------------------------------------------
(* handleLintError and displayChangedMessage.  A template and a notice     *)
(* text are sequences of pieces; "${file.path}" is the placeholder.        *)

PathPlaceholder == "${file.path}"

\* String.prototype.replace(piece, by): the first occurrence only
ReplaceFirst(tpl, piece, by) ==
    LET hits == {i \in 1..Len(tpl) : tpl[i] = piece}
        first == CHOOSE i \in hits : \A j \in hits : i <= j
    IN  IF hits = {} THEN tpl ELSE [tpl EXCEPT ![first] = by]

\* the message of each error: the parser's reason, its position and, after
\* a further ':', the quoted source lines
ErrorMessage(error) ==
    IF error = YAMLException
      THEN <<"bad indentation of a mapping entry at line 2, column 3", ":", LF,
             "<source lines>">>
    ELSE <<"<message of ", error, ">">>

\* Error.prototype.toString: name + ': ' + message
toString(error) ==
    <<IF error = YAMLException THEN "YAMLException" ELSE "Error", ":", " ">>
        \o ErrorMessage(error)

\* String.prototype.substring(start) for 0 <= start
substring(t, start) == Drop(t, Min(start, Len(t)))

\* handleLintError cutting the message after its last ':'
handleLintError_AfterLastColon(path, error, yamlErrorStringTemplate, logErrorStringTemplate) ==
    LET errorMessage == toString(error)
        last == CHOOSE i \in 1..Len(errorMessage) :
                   /\ errorMessage[i] = ":"
                   /\ \A j \in (i + 1)..Len(errorMessage) : errorMessage[j] # ":"
    IN  <<IF error = YAMLException
            THEN [kind |-> "yaml-error",
                  text |-> ReplaceFirst(yamlErrorStringTemplate, PathPlaceholder, path)
                               \o substring(errorMessage, last)]
            ELSE [kind |-> "error",
                  text |-> <<"An error occurred during linting. See console for details">>],
          [text |-> ReplaceFirst(logErrorStringTemplate, PathPlaceholder, path),
           error |-> error]>>

\* what handleLintError adds: <<the notice, the log entry>>
handleLintError(path, error, yamlErrorStringTemplate, logErrorStringTemplate) ==
    LET errorMessage == toString(error)
    IN  <<IF error = YAMLException
            THEN [kind |-> "yaml-error",
                  text |-> ReplaceFirst(yamlErrorStringTemplate, PathPlaceholder, path)
                               \o substring(errorMessage,
                                            IndexOf(errorMessage, <<":">>) + 1)]
            ELSE [kind |-> "error",
                  text |-> <<"An error occurred during linting. See console for details">>],
          [text |-> ReplaceFirst(logErrorStringTemplate, PathPlaceholder, path),
           error |-> error]>>

\* displayChangedMessage showing its notice whatever the setting is
displayChangedMessage_Always(s, added, removed) ==
    <<[kind |-> "changed", charsAdded |-> added, charsRemoved |-> removed]>>

\* what displayChangedMessage adds to the notices
displayChangedMessage(s, added, removed) ==
    IF s.displayChanged
      THEN <<[kind |-> "changed", charsAdded |-> added, charsRemoved |-> removed]>>
      ELSE <<>>

----------------------------------------------------------------------------
(* Spec: the interactive path.  One document is open in the editor; the    *)
(* 'Lint the current file' command runs runLinterEditor on it.             *)

DocChar == {"a", "b", "%"}
Docs == StrOver(DocChar, MaxDoc)

\* the aliases a directive may list
DirectiveSets == {{r} : r \in Aliases}

\* settings with the rules of `en` enabled, every other option at its default
SettingsWith(en) ==
    [InitialSettings EXCEPT
        !.ruleConfigs = [r \in Aliases |->
            [getDefaultOptions(r) EXCEPT ![enabledOptionName(r)] = r \in en]]]

LintSettings == {SettingsWith(en) : en \in SUBSET Aliases}

\* settings with the 'Display message on lint' toggle switched off
QuietSettings ==
    {[SettingsWith(en) EXCEPT !.displayChanged = FALSE] :
        en \in {{}, {EscapeYamlSpecialCharacters, GenericA, GenericB}}}

\* a document and what is written in it: the directive's list matters only
\* with a directive in the text, the unparsable rule only with a "b" in it
DocSetup(text, dir, bad) ==
    /\ text \in Docs
    /\ IF Contains(text, "%") THEN dir \in DirectiveSets ELSE dir = {}
    /\ IF Contains(text, "b") THEN bad \in Aliases \cup {None} ELSE bad = None

NullInput == "Error: Null input. (diff_main)"

Init ==
    /\ scenario = "editor"
    /\ pc = "idle"
    /\ DocSetup(buffer, directive, faulty)
    /\ settings \in LintSettings \cup QuietSettings
    /\ oldText = Undefined /\ newText = Undefined /\ lintLog = <<>>
    /\ changes = <<>> /\ editorChange = <<>>
    /\ IdleEditor /\ IdleBatch /\ IdleLoad

\* the scenarios in which commands act on the active editor
Interactive == scenario \in {"editor", "save"}

\* runLinterEditor(editor), lines 372-429; `position` is where the command
\* that called it is afterwards
runLinterEditorThen(position) ==
    /\ Interactive /\ runs < MaxRuns
    /\ runs' = runs + 1
    /\ oldText' = buffer
    /\ \E r \in {lintText(buffer, settings, directive, faulty)} :
          /\ lintLog' = r.log
          /\ IF r.err # None
               THEN \* the catch block falls through to diff_main(oldText, undefined)
                    \E h \in {handleLintError(activeFile, r.err,
                                 <<"There is an error in the yaml: ">>,
                                 <<"Lint File Error in File '", PathPlaceholder, "'">>)} :
                       /\ newText' = Undefined
                       /\ notices' = Append(notices, h[1])
                       /\ logged' = Append(logged, h[2])
                       /\ thrown' = NullInput
                       /\ changes' = <<>> /\ editorChange' = <<>>
                       /\ UNCHANGED buffer
               ELSE /\ newText' = r.text
                    /\ \E chs \in diff_main(buffer, r.text) :
                          \E ec \in {Project(chs)} :
                             /\ changes' = chs
                             /\ editorChange' = ec
                             /\ buffer' = transaction(buffer, ec)
                             /\ notices' = notices \o displayChangedMessage(
                                    settings, charsAdded(chs), charsRemoved(chs))
                    /\ thrown' = None
                    /\ UNCHANGED logged
    /\ pc' = position
    /\ UNCHANGED <<scenario, settings, directive, faulty, activeFile, vault, task,
                   numberOfErrors,
                   lintedFiles, folder, atDispatch, original, writes, stored>>

\* the command 'Lint the current file', lines 86-97
runLinterEditor == runLinterEditorThen("linted")

Next == runLinterEditor

Spec == Init /\ [][Next]_vars

----------------------------------------------------------------------------
(* Properties of the interactive path and of lintText.                     *)

Linted == scenario = "editor" /\ pc = "linted"
\* the run's lintText call returned
Returned == Linted /\ newText # Undefined

StageNames(log) == [i \in 1..Len(log) |-> log[i].stage]
IsPrefix(p, t) == Len(p) <= Len(t) /\ SubSeq(t, 1, Len(p)) = p

\* the call sites of lintText in the order of section 4.2, for a disabled set
ExpectedStages(disabledRules) ==
    <<"getDisabledRules", FormatTagsInYaml, EscapeYamlSpecialCharacters>>
        \o SelectSeq(rules, LAMBDA r : ~hasSpecialExecutionOrder(r) /\ r \notin disabledRules)
        \o <<YamlTimestamp, YamlKeySort>>

\* C2: the stages of a lintText run are executed in the order scan,
\* tag-formatting pre-rule, escaping pre-rule, the generic rules in registry
\* order, timestamp rule, key-sort rule, each at most once: the executed
\* stages are that list when lintText returns and a prefix of it when a rule
\* throws.
C2_StageOrder ==
    Linted =>
        LET expected == ExpectedStages(getDisabledRules(oldText, directive))
            ran == StageNames(lintLog)
        IN  /\ IsPrefix(ran, expected)
            /\ ran # <<>>
            /\ Returned => ran = expected
            /\ \A i, j \in 1..Len(ran) : i # j => ran[i] # ran[j]

\* a run that returned after both generic rules were applied between the
\* pre-rules and the timestamp rule
C2_Witness ==
    Returned /\ StageNames(lintLog) = ExpectedStages({}) /\ newText # oldText

\* what a lintText call hands back: the text, or Undefined when a rule threw
Outcome(r) == IF r.err = None THEN r.text ELSE Undefined

\* C3: for every alias in the disabled-rule set of the original text, the
\* run ends as a run in which that rule is not registered ends, whatever the
\* rule's enabled option is.
C3_DisableRespected ==
    Linted =>
        \A rule \in getDisabledRules(oldText, directive) :
            newText = Outcome(LintRun(oldText, settings, directive, faulty,
                                      Aliases \ {rule}))

\* a run that changed the text, with an enabled rule disabled by the
\* directive that would have changed the outcome had the directive not
\* listed it
C3_Witness ==
    /\ Returned /\ newText # oldText
    /\ \E rule \in getDisabledRules(oldText, directive) :
          /\ getRuleOptions(rule, settings)[enabledOptionName(rule)]
          /\ newText # Outcome(lintText(oldText, settings, directive \ {rule}, faulty))

\* C6 (as claimed): when lintText throws inside runLinterEditor there is
\* exactly one notice, the error's, no edit is made to the buffer, no
\* characters-added/removed message is shown, and runLinterEditor ends
\* without a further error.
C6_ErrorSurfaced ==
    (Linted /\ runs = 1 /\ newText = Undefined) =>
        /\ Len(notices) = 1
        /\ notices[1].kind \in {"yaml-error", "error"}
        /\ Len(logged) = 1
        /\ editorChange = <<>>
        /\ buffer = oldText
        /\ thrown = None

\* C7: the disabled-rule set is computed once, first, from the original
\* text, and every later stage consults that set.
C7_DisabledSetOnce ==
    Linted =>
        /\ lintLog[1].stage = "getDisabledRules"
        /\ lintLog[1].input = oldText
        /\ \A i \in 2..Len(lintLog) :
              /\ lintLog[i].stage # "getDisabledRules"
              /\ lintLog[i].dis = getDisabledRules(oldText, directive)

\* a run in which a stage was handed a text whose directive differs from the
\* original's: scanning that text would give another set
C7_Witness ==
    /\ Returned
    /\ \E i \in 2..Len(lintLog) :
          getDisabledRules(lintLog[i].input, directive)
              # getDisabledRules(oldText, directive)

\* the options a special rule is called with on a text nothing changed
ExtraOnFixed(rule, s, disabledRules) ==
    IF rule = YamlTimestamp THEN [alreadyModified |-> FALSE]
    ELSE IF rule = YamlKeySort
      THEN [yamlTimestampDateModifiedEnabled |->
               /\ YamlTimestamp \notin disabledRules
               /\ getRuleOptions(YamlTimestamp, s).enabled
               /\ getRuleOptions(YamlTimestamp, s).dateModified]
    ELSE NoExtra

\* every enabled rule that is not disabled leaves the text t unchanged
SatisfiesRules(t) ==
    \A rule \in Aliases \ getDisabledRules(t, directive) :
        getRuleOptions(rule, settings)[enabledOptionName(rule)] =>
            RuleApply(rule, t, ExtraOnFixed(rule, settings, getDisabledRules(t, directive)),
                      faulty)
                = [err |-> None, text |-> t]

\* C8: on a text that every enabled, non-disabled rule leaves unchanged
\* lintText returns the text, and the interactive path emits no edit
\* operation and leaves the buffer as it is.
C8_Idempotent ==
    (Linted /\ SatisfiesRules(oldText)) =>
        /\ newText = oldText
        /\ editorChange = <<>>
        /\ buffer = oldText
        /\ thrown = None

\* a run on a non-empty text that satisfies the rules, with the timestamp
\* rule and a generic rule enabled and not disabled
C8_Witness ==
    /\ Linted /\ SatisfiesRules(oldText) /\ oldText # <<>>
    /\ getRuleOptions(YamlTimestamp, settings).enabled
    /\ getRuleOptions(GenericB, settings).enabled
    /\ getDisabledRules(oldText, directive) = {}

\* the entries of the generic loop in a log, and what a stage handed on: the
\* input of the next stage, or the text lintText returned
GenericAliases == {r \in Aliases : ~hasSpecialExecutionOrder(r)}
LoopEntries(log) == SelectSeq(log, LAMBDA e : e.stage \in GenericAliases)
OutputOf(i) == IF i < Len(lintLog) THEN lintLog[i + 1].input ELSE newText

\* C14: the generic loop applies, in registry order, exactly the registered
\* rules that are neither in the disabled set nor flagged for special
\* execution order; a flagged rule is only run at its own call site, and a
\* rule of the loop whose enabled option is off hands the text on unchanged.
C14_GenericLoop ==
    Returned =>
        LET disabledRules == getDisabledRules(oldText, directive)
        IN  /\ StageNames(LoopEntries(lintLog)) =
                  SelectSeq(rules, LAMBDA r : /\ r \notin disabledRules
                                              /\ ~hasSpecialExecutionOrder(r))
            /\ \A r \in Aliases \ GenericAliases :
                  Cardinality({i \in 1..Len(lintLog) : lintLog[i].stage = r}) <= 1
            /\ \A i \in 1..Len(lintLog) :
                  LET e == lintLog[i]
                  IN  e.stage \in GenericAliases =>
                        /\ e.extra = NoExtra
                        /\ OutputOf(i) =
                              IF getRuleOptions(e.stage, settings)[enabledOptionName(e.stage)]
                                THEN RuleApply(e.stage, e.input, NoExtra, faulty).text
                                ELSE e.input

\* a run whose loop skipped a disabled generic rule and called one whose
\* enabled option is off, while the rules outside the loop changed the text
C14_Witness ==
    /\ Returned
    /\ getDisabledRules(oldText, directive) = {GenericB}
    /\ Len(LoopEntries(lintLog)) = 1
    /\ \E i \in 1..Len(lintLog) :
          lintLog[i].stage = GenericA /\ OutputOf(i) = lintLog[i].input
    /\ ~getRuleOptions(GenericA, settings)[enabledOptionName(GenericA)]
    /\ newText # oldText

\* the text the timestamp rule is handed: the original after the two
\* pre-rules and the generic loop
TextBeforeTimestamp ==
    LET disabledRules == getDisabledRules(oldText, directive)
    IN  GenericLoop(PreStages(ScanStage(oldText, directive), settings, disabledRules,
                              Aliases, faulty),
                    1, settings, disabledRules, Aliases, faulty).text

\* C15: the alreadyModified flag handed to the timestamp rule is true
\* exactly when the text after the pre-rules and the generic loop differs
\* from the original text, whatever the timestamp and key-sort rules do
\* afterwards and also when the earlier rules changed the text and restored it.
C15_AlreadyModified ==
    Linted =>
        \A i \in 1..Len(lintLog) :
            lintLog[i].stage = YamlTimestamp =>
                /\ lintLog[i].input = TextBeforeTimestamp
                /\ lintLog[i].extra.alreadyModified = (TextBeforeTimestamp # oldText)
                /\ \A j \in 1..Len(lintLog) :
                      lintLog[j].stage = YamlKeySort => j > i

\* a run in which the earlier rules changed the text and restored it, the
\* flag was false, and the key-sort rule then changed the text
C15_Witness ==
    /\ Returned
    /\ \E i, j \in 1..Len(lintLog) :
          /\ j < i
          /\ lintLog[i].stage = YamlTimestamp
          /\ lintLog[j].input # oldText
          /\ lintLog[i].input = oldText
          /\ ~lintLog[i].extra.alreadyModified
    /\ getRuleOptions(YamlTimestamp, settings).enabled

\* C18: after an interactive run whose lintText returned, the reported
\* characters-added is the summed length of the diff's insert texts and
\* characters-removed that of its delete texts, their difference is
\* length(final) - length(original), the message is shown exactly when
\* displayChanged is on, and the batch built from the diff is applied to the
\* buffer either way.
C18_ReportedCounts ==
    Returned =>
        LET added == Len(SideText(changes, {DIFF_INSERT}))
            removed == Len(SideText(changes, {DIFF_DELETE}))
        IN  /\ added - removed = Len(newText) - Len(oldText)
            /\ IF settings.displayChanged
                 THEN /\ Len(notices) = runs
                      /\ notices[Len(notices)] =
                            [kind |-> "changed", charsAdded |-> added,
                             charsRemoved |-> removed]
                 ELSE notices = <<>>
            /\ editorChange = Project(changes)
            /\ buffer = transaction(oldText, editorChange)

\* a run with the message switched off whose diff inserts and deletes text
C18_Witness ==
    /\ Returned
    /\ ~settings.displayChanged
    /\ Len(SideText(changes, {DIFF_INSERT})) > 0
    /\ Len(SideText(changes, {DIFF_DELETE})) > 0
    /\ buffer # oldText
    /\ notices = <<>>

----------------------------------------------------------------------------
(* SpecProjector: the diff and the projection of runLinterEditor on every  *)
(* pair of texts, with the batch applied to a buffer holding the original. *)

ProjChar == {"a", "b", LF}
\* the scenario of the specification's section 8, outside the drawn texts
ScenarioOld == <<"a", LF, "b", "b", LF>>
ScenarioNew == <<"a", LF, "c", "c", "b", "b", LF>>

ProjPairs ==
    (StrOver(ProjChar, MaxLen) \X StrOver(ProjChar, MaxLen))
        \cup {<<ScenarioOld, ScenarioNew>>}

InitProjector ==
    /\ scenario = "projector"
    /\ pc = "start"
    /\ \E p \in ProjPairs : oldText = p[1] /\ newText = p[2] /\ buffer = p[1]
    /\ changes = <<>> /\ editorChange = <<>>
    /\ IdleLint /\ IdleEditor /\ IdleBatch /\ IdleLoad

\* lines 385-428: diff_main, the forEach, editor.transaction, the message
ProjectEdits ==
    /\ scenario = "projector" /\ pc = "start"
    /\ \E chs \in diff_main(oldText, newText) :
          /\ changes' = chs
          /\ editorChange' = Project(chs)
          /\ buffer' = transaction(buffer, Project(chs))
          /\ notices' = displayChangedMessage(settings, charsAdded(chs), charsRemoved(chs))
    /\ pc' = "done"
    /\ UNCHANGED <<scenario, settings, directive, faulty, oldText, newText, lintLog,
                   logged, thrown, activeFile, runs, vault, task, numberOfErrors, lintedFiles,
                   folder, atDispatch, original, writes, stored>>

NextProjector == ProjectEdits

SpecProjector == InitProjector /\ [][NextProjector]_vars

\* the diff ops are an edit script of (oldText, newText)
DiffIsScript ==
    (scenario = "projector" /\ pc = "done") =>
        /\ SideText(changes, {DIFF_EQUAL, DIFF_DELETE}) = oldText
        /\ SideText(changes, {DIFF_EQUAL, DIFF_INSERT}) = newText

\* C1 (as claimed): after the batch built by runLinterEditor is applied to a
\* buffer holding the original, every position read against the unedited
\* original, the buffer holds the final text.
C1_RoundTrip ==
    (scenario = "projector" /\ pc = "done") => buffer = newText


\* C9: a diff of one inserted run between unchanged text gives one
\* operation, an insertion without a `to` at the end of the leading unchanged
\* text, with the inserted text; the counts reported are the inserted length
\* and 0.  The scenario of section 8 gives the insertion of "cc" at line 1,
\* column 0, 2 added and 0 removed.
C9_SingleInsertion ==
    (scenario = "projector" /\ pc = "done") =>
        /\ (/\ Len(changes) = 3
            /\ changes[1][1] = DIFF_EQUAL
            /\ changes[2][1] = DIFF_INSERT
            /\ changes[3][1] = DIFF_EQUAL)
           => /\ editorChange = <<[text |-> changes[2][2],
                                   from |-> endOfDocument(changes[1][2])]>>
              /\ notices = <<[kind |-> "changed",
                              charsAdded |-> Len(changes[2][2]), charsRemoved |-> 0]>>
        /\ (oldText = ScenarioOld /\ newText = ScenarioNew)
           => /\ editorChange = <<[text |-> <<"c", "c">>, from |-> [line |-> 1, ch |-> 0]]>>
              /\ notices = <<[kind |-> "changed", charsAdded |-> 2, charsRemoved |-> 0]>>

\* the scenario of section 8 has been projected
C9_Witness ==
    /\ scenario = "projector" /\ pc = "done"
    /\ oldText = ScenarioOld /\ newText = ScenarioNew
    /\ Len(changes) = 3


Projected == scenario = "projector" /\ pc = "done"

\* the indices of the insert and delete ops of a diff, in diff order
EditIndices(chs) ==
    SelectSeq([j \in 1..Len(chs) |-> j], LAMBDA j : chs[j][1] # DIFF_EQUAL)

\* the text of the ops before op j whose type is in `types`
ConsumedBefore(chs, j, types) == SideText(SubSeq(chs, 1, j - 1), types)

\* C13 (as claimed): every emitted operation is addressed in the original
\* text: its `from` is the end of the equal and deleted text of the ops
\* before it, and a delete's `to` is the end of that text extended by the
\* deleted text.
C13_PreEditCoordinates ==
    Projected =>
        LET idx == EditIndices(changes)
        IN  /\ Len(editorChange) = Len(idx)
            /\ \A k \in 1..Len(idx) :
                  LET j == idx[k]
                      consumed == ConsumedBefore(changes, j, {DIFF_EQUAL, DIFF_DELETE})
                  IN  /\ editorChange[k].from = endOfDocument(consumed)
                      /\ changes[j][1] = DIFF_DELETE =>
                            editorChange[k].to = endOfDocument(consumed \o changes[j][2])

\* C20: the projector emits one operation per insert or delete op, in diff
\* order, and none for an equal op; the running text an operation is placed
\* at the end of is the equal and inserted text of the ops before it, never
\* a deleted text; a delete has an empty replacement and ends where the
\* running text extended by the deleted text ends.
C20_OneOpPerChange ==
    Projected =>
        LET idx == EditIndices(changes)
        IN  /\ Len(editorChange) = Len(idx)
            /\ \A k \in 1..Len(idx) :
                  LET j == idx[k]
                      curText == ConsumedBefore(changes, j, {DIFF_EQUAL, DIFF_INSERT})
                      value == changes[j][2]
                  IN  IF changes[j][1] = DIFF_INSERT
                        THEN editorChange[k] =
                                [text |-> value, from |-> endOfDocument(curText)]
                        ELSE editorChange[k] =
                                [text |-> <<>>, from |-> endOfDocument(curText),
                                 to |-> endOfDocument(curText \o value)]

\* a diff with an equal op and with an operation after a delete
C20_Witness ==
    /\ Projected
    /\ \E i, j, k \in 1..Len(changes) :
          /\ i < k
          /\ changes[i][1] = DIFF_DELETE
          /\ changes[j][1] = DIFF_EQUAL
          /\ changes[k][1] # DIFF_EQUAL
    /\ Len(editorChange) < Len(changes)

----------------------------------------------------------------------------
(* SpecBatch: runLinterAllFiles.  The map callback of every markdown file  *)
(* runs up to its first await when the run starts; the storage calls       *)
(* vault.read and vault.modify settle later, in any order, and either may  *)
(* reject.                                                                 *)

\* the markdown files a vault may hold, by path, and its folders
AllFiles == <<"a/1", "ab/2", "3", "a/b/4">>
Files == {AllFiles[i] : i \in 1..MaxFiles}
Folders == {"a", "ab"}

\* file.path and folder.path, character by character
PathChars(file) ==
    CASE file = "a/1" -> <<"a", "/", "1">>
      [] file = "ab/2" -> <<"a", "b", "/", "2">>
      [] file = "3" -> <<"3">>
      [] file = "a/b/4" -> <<"a", "/", "b", "/", "4">>
      [] file = "a" -> <<"a">>
      [] file = "ab" -> <<"a", "b">>

\* folder.name: the last segment of the folder's path
FolderName(fld) ==
    LET path == PathChars(fld)
        seps == {i \in 1..Len(path) : path[i] = "/"}
        last == IF seps = {} THEN 0 ELSE CHOOSE i \in seps : \A j \in seps : j <= i
    IN  SubSeq(path, last + 1, Len(path))

\* normalizePath of the host: runs of separators become one '/', the
\* separators at both ends are dropped, and the empty path is '/'
RECURSIVE CollapseSeparators(_)
CollapseSeparators(path) ==
    IF path = <<>> THEN <<>>
    ELSE LET rest == CollapseSeparators(Tail(path))
             sep == Head(path) \in {"/", "\\"}
         IN  IF sep /\ rest # <<>> /\ Head(rest) = "/" THEN rest
             ELSE <<IF sep THEN "/" ELSE Head(path)>> \o rest

normalizePath(path) ==
    LET c == CollapseSeparators(path)
        l == IF c # <<>> /\ Head(c) = "/" THEN Tail(c) ELSE c
        t == IF l # <<>> /\ l[Len(l)] = "/" THEN SubSeq(l, 1, Len(l) - 1) ELSE l
    IN  IF t = <<>> THEN <<"/">> ELSE t

\* String.split('\n')
RECURSIVE Split(_)
Split(text) ==
    IF ~Contains(text, LF) THEN <<text>>
    ELSE LET i == CHOOSE i \in 1..Len(text) :
                     text[i] = LF /\ \A j \in 1..(i - 1) : text[j] # LF
         IN  <<SubSeq(text, 1, i - 1)>> \o Split(SubSeq(text, i + 1, Len(text)))

\* shouldIgnoreFile matching an empty entry too
shouldIgnoreFile_EmptyMatches(file, s) ==
    \E i \in 1..Len(s.foldersToIgnore) :
        StartsWith(PathChars(file), s.foldersToIgnore[i])

\* shouldIgnoreFile(file), lines 300-307
shouldIgnoreFile(file, s) ==
    \E i \in 1..Len(s.foldersToIgnore) :
        LET entry == s.foldersToIgnore[i]
        IN  Len(entry) > 0 /\ StartsWith(PathChars(file), entry)

\* the folder test of line 343 without the separator after the folder's path
InFolder_NoSeparator(file, fld) ==
    StartsWith(normalizePath(PathChars(file)), normalizePath(PathChars(fld)))

\* lines 342-343: the file's path starts with the folder's path and '/'
InFolder(file, fld) ==
    StartsWith(normalizePath(PathChars(file)), normalizePath(PathChars(fld)) \o <<"/">>)

\* stripCr of utils/strings: the text without carriage returns
stripCr(text) == RemoveAll(text, "\r")

IoError == "IoError"

\* the specifications that run the linter over files
Batching == scenario \in {"batch", "live"}

\* calls counts the invocations of vault.modify for the file; used is the
\* settings object's values when lintText was called for it
TaskIdle ==
    [st |-> "idle", text |-> <<>>, log |-> <<>>, why |-> None, calls |-> 0,
     used |-> Undefined]

\* runLinterFile after the read resolved: the task then waits for
\* vault.modify, or the error of lintText leaves runLinterFile
AfterRead_WritesOnError(content) ==
    LET r == lintText(stripCr(content), settings, directive, faulty)
    IN  [st |-> "writing", text |-> r.text, log |-> r.log, why |-> None, err |-> None]

AfterRead(content) ==
    LET r == lintText(stripCr(content), settings, directive, faulty)
    IN  IF r.err = None
          THEN [st |-> "writing", text |-> r.text, log |-> r.log, why |-> None,
                err |-> None]
          ELSE [st |-> "thrown", text |-> <<>>, log |-> r.log, why |-> "lint",
                err |-> r.err]

\* the task of a file whose runLinterFile raised
Failed(t, log, why) ==
    [t EXCEPT !.st = "failed", !.text = <<>>, !.log = log, !.why = why,
              !.used = IF why = "lint" THEN settings ELSE @]

\* the catch block of the map callback without its count
CatchLintError_Uncounted(file, error, log, why) ==
    \E h \in {handleLintError(file, error,
                 <<"There is an error in the yaml of file '", PathPlaceholder, "': ">>,
                 <<"Lint All Files Error in File '", PathPlaceholder, "'">>)} :
       /\ notices' = Append(notices, h[1])
       /\ logged' = Append(logged, h[2])
       /\ UNCHANGED numberOfErrors
       /\ task' = [task EXCEPT ![file] = Failed(@, log, why)]

\* the catch block of the map callback, lines 322-326
CatchLintError(file, error, log, why) ==
    \E h \in {handleLintError(file, error,
                 <<"There is an error in the yaml of file '", PathPlaceholder, "': ">>,
                 <<"Lint All Files Error in File '", PathPlaceholder, "'">>)} :
       /\ notices' = Append(notices, h[1])
       /\ logged' = Append(logged, h[2])
       /\ numberOfErrors' = numberOfErrors + 1
       /\ task' = [task EXCEPT ![file] = Failed(@, log, why)]

\* the catch block of the folder run's map callback, lines 346-350
CatchFolderLintError(file, error, log, why) ==
    \E h \in {handleLintError(file, error,
                 <<"There is an error in the yaml of file '", PathPlaceholder, "': ">>,
                 <<"Lint All Files in Folder Error in File '", PathPlaceholder, "'">>)} :
       /\ notices' = Append(notices, h[1])
       /\ logged' = Append(logged, h[2])
       /\ numberOfErrors' = numberOfErrors + 1
       /\ task' = [task EXCEPT ![file] = Failed(@, log, why)]

\* runLinterFile raised: the catch block of the run, and line 352 of a
\* folder run
Caught(file, error, log, why) ==
    IF folder = None
      THEN CatchLintError(file, error, log, why) /\ UNCHANGED lintedFiles
      ELSE CatchFolderLintError(file, error, log, why) /\ lintedFiles' = lintedFiles + 1

BatchDocs == {<<"a">>, <<"b">>, <<"%", "a">>}
\* what the 'Folders to ignore' text area may hold
TextAreaValues == {<<>>, <<"a", "b">>, <<"a", "b", LF>>}
BatchSettings ==
    {[SettingsWith({GenericA, GenericB, YamlTimestamp}) EXCEPT !.foldersToIgnore = ig] :
        ig \in {<<>>} \cup {Split(v) : v \in TextAreaValues}}

InitBatch ==
    /\ scenario = "batch"
    /\ pc = "idle"
    /\ settings \in BatchSettings
    /\ directive = {GenericA}
    /\ faulty \in {GenericA, GenericB}
    /\ vault \in [Files -> BatchDocs]
    /\ original = vault
    /\ task = [f \in Files |-> TaskIdle]
    /\ writes = [f \in Files |-> <<>>]
    /\ numberOfErrors = 0 /\ lintedFiles = 0 /\ folder = None /\ atDispatch = Undefined
    /\ oldText = Undefined /\ newText = Undefined /\ lintLog = <<>>
    /\ changes = <<>> /\ editorChange = <<>> /\ buffer = <<>>
    /\ IdleEditor /\ IdleLoad

BatchFrame == <<scenario, settings, directive, faulty, oldText, newText, lintLog, changes,
                editorChange, buffer, thrown, activeFile, runs, original, stored>>

\* runLinterAllFiles up to Promise.all, lines 316-328: every callback runs to
\* its first await, the vault.read of runLinterFile
runLinterAllFiles ==
    /\ Batching /\ pc = "idle"
    /\ pc' = "running"
    /\ numberOfErrors' = 0
    /\ atDispatch' = settings
    /\ task' = [f \in Files |->
                  IF shouldIgnoreFile(f, settings)
                    THEN [TaskIdle EXCEPT !.st = "ignored"]
                    ELSE [TaskIdle EXCEPT !.st = "reading"]]
    /\ UNCHANGED <<vault, writes, notices, logged, lintedFiles, folder>>
    /\ UNCHANGED BatchFrame

\* runLinterAllFilesInFolder up to Promise.all, lines 337-354
runLinterAllFilesInFolder ==
    /\ Batching /\ pc = "idle"
    /\ \E fld \in Folders :
          /\ folder' = fld
          /\ task' = [f \in Files |->
                        IF ~InFolder(f, fld) THEN [TaskIdle EXCEPT !.st = "outside"]
                        ELSE IF shouldIgnoreFile(f, settings)
                          THEN [TaskIdle EXCEPT !.st = "ignored"]
                        ELSE [TaskIdle EXCEPT !.st = "reading"]]
    /\ pc' = "running"
    /\ numberOfErrors' = 0
    /\ lintedFiles' = 0
    /\ atDispatch' = settings
    /\ UNCHANGED <<vault, writes, notices, logged>>
    /\ UNCHANGED BatchFrame

\* vault.read(file) resolves: lines 310-313 run up to the await of vault.modify
ReadResolves(file) ==
    /\ Batching /\ pc = "running" /\ task[file].st = "reading"
    /\ \E r \in {AfterRead(vault[file])} :
          IF r.err = None
            THEN /\ task' = [task EXCEPT ![file] =
                               [st |-> "writing", text |-> r.text, log |-> r.log,
                                why |-> None, calls |-> @.calls + 1,
                                used |-> settings]]
                 /\ UNCHANGED <<notices, logged, numberOfErrors, lintedFiles>>
            ELSE Caught(file, r.err, r.log, r.why)
    /\ UNCHANGED <<pc, vault, writes, folder, atDispatch>>
    /\ UNCHANGED BatchFrame

\* vault.read(file) rejects
ReadRejects(file) ==
    /\ Batching /\ pc = "running" /\ task[file].st = "reading"
    /\ Caught(file, IoError, <<>>, "read")
    /\ UNCHANGED <<pc, vault, writes, folder, atDispatch>>
    /\ UNCHANGED BatchFrame

\* vault.modify(file, newText) resolves: the text is in storage
ModifyResolves(file) ==
    /\ Batching /\ pc = "running" /\ task[file].st = "writing"
    /\ vault' = [vault EXCEPT ![file] = task[file].text]
    /\ writes' = [writes EXCEPT ![file] = Append(@, task[file].text)]
    /\ task' = [task EXCEPT ![file].st = "done"]
    /\ lintedFiles' = IF folder = None THEN lintedFiles ELSE lintedFiles + 1
    /\ UNCHANGED <<pc, notices, logged, numberOfErrors, folder, atDispatch>>
    /\ UNCHANGED BatchFrame

\* vault.modify(file, newText) rejects: nothing was stored
ModifyRejects(file) ==
    /\ Batching /\ pc = "running" /\ task[file].st = "writing"
    /\ Caught(file, IoError, task[file].log, "modify")
    /\ UNCHANGED <<pc, vault, writes, folder, atDispatch>>
    /\ UNCHANGED BatchFrame

\* the callback of a file has returned once its task has started
Settled_OnceStarted(file) == task[file].st # "idle"

\* the promise of the file's map callback has resolved
Settled(file) == task[file].st \in {"outside", "ignored", "done", "failed"}

\* the summary notice of lines 329-334
SummaryNotice(n) ==
    IF n = 0 THEN [kind |-> "summary", text |-> "Linted all files"]
    ELSE [kind |-> "summary",
          text |-> IF n = 1 THEN "Linted all files and there was 1 error."
                   ELSE "Linted all files and there were <errors> errors.",
          errors |-> n]

\* the summary notice of lines 355-360
FolderSummaryNotice(n, linted, name) ==
    IF n = 0
      THEN [kind |-> "folder-summary", linted |-> linted, folder |-> name,
            text |-> "Linted all <linted> files in <folder>."]
    ELSE [kind |-> "folder-summary", linted |-> linted, folder |-> name,
          text |-> IF n = 1
                     THEN "Linted all <linted> files in <folder> and there was 1 error."
                   ELSE "Linted all <linted> files in <folder> and there were <errors> errors.",
          errors |-> n]

\* Promise.all resolved: lines 329-334
BatchSummary ==
    /\ Batching /\ pc = "running" /\ folder = None
    /\ \A f \in Files : Settled(f)
    /\ pc' = "finished"
    /\ notices' = Append(notices, SummaryNotice(numberOfErrors))
    /\ UNCHANGED <<vault, task, writes, logged, numberOfErrors, lintedFiles, folder,
                   atDispatch>>
    /\ UNCHANGED BatchFrame

\* Promise.all of the folder run resolved: lines 355-360
FolderSummary ==
    /\ Batching /\ pc = "running" /\ folder # None
    /\ \A f \in Files : Settled(f)
    /\ pc' = "finished"
    /\ notices' = Append(notices,
                         FolderSummaryNotice(numberOfErrors, lintedFiles, FolderName(folder)))
    /\ UNCHANGED <<vault, task, writes, logged, numberOfErrors, lintedFiles, folder,
                   atDispatch>>
    /\ UNCHANGED BatchFrame

NextBatch ==
    \/ runLinterAllFiles
    \/ runLinterAllFilesInFolder
    \/ \E f \in Files : ReadResolves(f)
    \/ \E f \in Files : ReadRejects(f)
    \/ \E f \in Files : ModifyResolves(f)
    \/ \E f \in Files : ModifyRejects(f)
    \/ BatchSummary
    \/ FolderSummary

SpecBatch == InitBatch /\ [][NextBatch]_vars

\* every storage call returns, and the continuation of Promise.all runs
BatchFairness ==
    /\ \A f \in Files : WF_vars(ReadResolves(f) \/ ReadRejects(f))
    /\ \A f \in Files : WF_vars(ModifyResolves(f) \/ ModifyRejects(f))
    /\ WF_vars(BatchSummary)
    /\ WF_vars(FolderSummary)

SpecBatchFair == SpecBatch /\ BatchFairness

\* the files the run processes, those whose processing raised, and the rest
NonIgnored == {f \in Files : ~shouldIgnoreFile(f, settings)}
Failing == {f \in NonIgnored : task[f].st = "failed"}
Succeeding == NonIgnored \ Failing
Linted_(f) == lintText(stripCr(original[f]), settings, directive, faulty)
LastNotice == notices[Len(notices)]
VaultRunFinished == scenario = "batch" /\ pc = "finished" /\ folder = None

C5_NoPartialWrite ==
    scenario = "batch" =>
        \A f \in Files :
            LET t == task[f]
                r == Linted_(f)
            IN  /\ t.calls <= 1
                /\ Len(writes[f]) <= t.calls
                /\ t.calls = 1 => r.err = None
                /\ t.st = "writing" => t.text = r.text
                /\ \A i \in 1..Len(writes[f]) : writes[f][i] = r.text
                /\ t.why \in {"read", "lint"} =>
                      t.calls = 0 /\ writes[f] = <<>> /\ vault[f] = original[f]
                /\ t.why = "read" => t.log = <<>>
                /\ t.why = "lint" =>
                      /\ t.log # <<>>
                      /\ t.log[Len(t.log)].stage = faulty
                      /\ RuleApply(faulty, t.log[Len(t.log)].input, NoExtra,
                                   faulty).err # None
                      /\ \A i \in 1..(Len(t.log) - 1) : t.log[i].stage # faulty

\* a run in which a document raised in a stage that is not the last one of
\* the pipeline and another document was written
C5_Witness ==
    /\ scenario = "batch"
    /\ faulty = GenericA
    /\ \E f \in Files : task[f].why = "lint"
    /\ \E g \in Files : writes[g] # <<>>

\* the path has a non-empty entry of the ignored-folder list as a prefix
HasIgnoredPrefix(f, ignored) ==
    \E i \in 1..Len(ignored) :
        /\ ignored[i] # <<>>
        /\ Len(ignored[i]) <= Len(PathChars(f))
        /\ SubSeq(PathChars(f), 1, Len(ignored[i])) = ignored[i]

BatchStarted == scenario = "batch" /\ pc \in {"running", "finished"}
Untouched(f) ==
    /\ task[f].calls = 0 /\ task[f].log = <<>> /\ task[f].used = Undefined
    /\ writes[f] = <<>> /\ vault[f] = original[f]

\* C11: in a vault-wide or folder run a document whose path starts with a
\* non-empty entry of the ignored-folder list is never read, linted or
\* written and is counted neither as processed nor as errored; an empty
\* entry of the list ignores no document.
C11_IgnoredUntouched ==
    BatchStarted =>
        /\ \A f \in Files :
              /\ HasIgnoredPrefix(f, settings.foldersToIgnore) =>
                    /\ task[f].st \in {"ignored", "outside"}
                    /\ Untouched(f)
              /\ task[f].st = "ignored" => HasIgnoredPrefix(f, settings.foldersToIgnore)
        /\ numberOfErrors =
              Cardinality({f \in Files : /\ ~HasIgnoredPrefix(f, settings.foldersToIgnore)
                                         /\ task[f].st = "failed"})
        /\ folder # None =>
              lintedFiles =
                 Cardinality({f \in Files : /\ ~HasIgnoredPrefix(f, settings.foldersToIgnore)
                                            /\ task[f].st \in {"done", "failed"}})

\* a finished run with an empty entry and a folder in the list: the document
\* of the folder was ignored and another one was processed
C11_Witness ==
    /\ scenario = "batch" /\ pc = "finished"
    /\ \E i \in 1..Len(settings.foldersToIgnore) : settings.foldersToIgnore[i] = <<>>
    /\ \E f \in Files : task[f].st = "ignored" /\ Untouched(f)
    /\ \E g \in Files : task[g].st \in {"done", "failed"}

SummaryKinds == {"summary", "folder-summary"}
SummaryCount == Cardinality({i \in 1..Len(notices) : notices[i].kind \in SummaryKinds})
Raised == {f \in Files : task[f].st = "failed"}
ReportedErrors(n) == IF "errors" \in DOMAIN n THEN n.errors ELSE 0

\* the safety part of C16
SummaryAfterAll ==
    scenario = "batch" =>
        /\ numberOfErrors = Cardinality(Raised)
        /\ SummaryCount = IF pc = "finished" THEN 1 ELSE 0
        /\ pc = "finished" =>
              /\ \A f \in Files : task[f].st \in {"outside", "ignored", "done", "failed"}
              /\ LastNotice.kind \in SummaryKinds
              /\ ReportedErrors(LastNotice) = Cardinality(Raised)

\* C16: under every interleaving of the tasks of a vault-wide or folder run
\* the summary notice is produced once, only when every task has settled,
\* with the number of tasks that raised as its error count; when every
\* storage call returns, a started run produces the summary.
C16_SummaryOnce ==
    /\ []SummaryAfterAll
    /\ (scenario = "batch" /\ pc = "running") ~> (pc = "finished")

\* a finished vault-wide run in which one task raised and another one wrote
C16_Witness ==
    /\ VaultRunFinished
    /\ Cardinality(Raised) = 1
    /\ \E f \in Files : task[f].st = "done"
    /\ notices[1].kind \notin SummaryKinds

FolderRunFinished == scenario = "batch" /\ pc = "finished" /\ folder # None

\* the documents of a folder run: the path starts with the folder's path and
\* '/', and no non-empty ignored entry is a prefix of it
FolderDocuments ==
    {f \in Files :
        /\ LET prefix == PathChars(folder) \o <<"/">>
           IN  /\ Len(prefix) <= Len(PathChars(f))
               /\ SubSeq(PathChars(f), 1, Len(prefix)) = prefix
        /\ ~HasIgnoredPrefix(f, settings.foldersToIgnore)}

\* C17: a folder run processes exactly the documents whose path starts with
\* the folder's path followed by '/' and that are not ignored; it reports
\* their number as processed, the ones that raised included, and the number
\* that raised as errored.
C17_FolderScope ==
    FolderRunFinished =>
        /\ \A f \in FolderDocuments : task[f].st \in {"done", "failed"}
        /\ \A f \in Files \ FolderDocuments : Untouched(f) /\ task[f].st \notin {"done", "failed"}
        /\ LastNotice.kind = "folder-summary"
        /\ LastNotice.linted = Cardinality(FolderDocuments)
        /\ LastNotice.folder = FolderName(folder)
        /\ ReportedErrors(LastNotice) = Cardinality(Raised)
        /\ Raised \subseteq FolderDocuments

\* a finished run over folder 'a' whose document raised and was counted as
\* processed, with the document of the sibling folder 'ab' left alone
C17_Witness ==
    /\ FolderRunFinished
    /\ folder = "a"
    /\ task["a/1"].st = "failed"
    /\ LastNotice.linted = 1
    /\ task["ab/2"].st = "outside"
    /\ ~HasIgnoredPrefix("ab/2", settings.foldersToIgnore)

----------------------------------------------------------------------------
(* SpecLoad: loadSettings over the data file of the plugin, and the two    *)
(* toggles of the settings tab, which save the settings they changed.      *)

Has(o, k) == k \in DOMAIN o

\* Object.assign(target, source)
Assign(target, source) ==
    [k \in DOMAIN target \cup DOMAIN source |->
        IF k \in DOMAIN source THEN source[k] ELSE target[k]]

\* delete o[key]
Delete(o, key) == [k \in DOMAIN o \ {key} |-> o[k]]

\* const storedSettings = data || {}, line 190
StoredSettings(st) == IF st.present THEN st.data ELSE <<>>

\* LoadRuleConfig with the stored option map taking the place of the defaults
LoadRuleConfig_OverridesOnly(rule, storedSettings) ==
    IF Has(storedSettings, "ruleConfigs") /\ Has(storedSettings.ruleConfigs, rule)
      THEN storedSettings.ruleConfigs[rule]
      ELSE getDefaultOptions(rule)

\* LoadRuleConfig copying the legacy key and leaving it in the option map
LoadRuleConfig_KeepsLegacy(rule, storedSettings) ==
    LET defaults == getDefaultOptions(rule)
    IN  IF Has(storedSettings, "ruleConfigs") /\ Has(storedSettings.ruleConfigs, rule)
          THEN LET overrides == storedSettings.ruleConfigs[rule]
                   merged == Assign(defaults, overrides)
               IN  IF Has(overrides, "Enabled")
                     THEN [k \in DOMAIN merged \cup {enabledOptionName(rule)} |->
                             IF k = enabledOptionName(rule)
                               THEN overrides["Enabled"] ELSE merged[k]]
                     ELSE merged
          ELSE defaults

\* the body of `for (const rule of rules)`, lines 193-203
LoadRuleConfig(rule, storedSettings) ==
    LET defaults == getDefaultOptions(rule)
    IN  IF Has(storedSettings, "ruleConfigs") /\ Has(storedSettings.ruleConfigs, rule)
          THEN LET overrides == storedSettings.ruleConfigs[rule]
                   merged == Assign(defaults, overrides)
               IN  IF Has(overrides, "Enabled")
                     THEN Delete([k \in DOMAIN merged \cup {enabledOptionName(rule)} |->
                                    IF k = enabledOptionName(rule)
                                      THEN overrides["Enabled"] ELSE merged[k]],
                                 "Enabled")
                     ELSE merged
          ELSE defaults

\* lines 206-220: a global scalar is taken from the stored data when it has it
LoadGlobal(key, storedSettings) ==
    IF Has(storedSettings, key) THEN storedSettings[key] ELSE InitialSettings[key]

\* the settings loadSettings builds, lines 181-220
LoadedSettings(storedSettings) ==
    [k \in DOMAIN InitialSettings |->
        IF k = "ruleConfigs"
          THEN [r \in Aliases |-> LoadRuleConfig(r, storedSettings)]
          ELSE LoadGlobal(k, storedSettings)]

\* the option maps and the global scalars a data file may hold
OptionKeys == {"enabled", "Enabled", "dateModified"}
OptionMaps == UNION {[K -> BOOLEAN] : K \in SUBSET OptionKeys}
StoredRuleOrder == <<YamlTimestamp, GenericA, YamlKeySort>>
StoredRules == {StoredRuleOrder[i] : i \in 1..MaxStoredRules}
StoredRuleConfigs == UNION {[R -> OptionMaps] : R \in SUBSET StoredRules}
StoredGlobals ==
    {<<>>,
     [lintOnSave |-> TRUE],
     [displayChanged |-> FALSE, foldersToIgnore |-> <<<<"a">>>>],
     [linterLocale |-> "en", logLevel |-> "DEBUG"]}
StoredData ==
    StoredGlobals
      \cup {Assign(g, [ruleConfigs |-> rc]) : g \in StoredGlobals, rc \in StoredRuleConfigs}

InitLoad ==
    /\ scenario = "load"
    /\ pc = "unloaded"
    /\ settings = Undefined
    /\ stored \in {NoData} \cup {[present |-> TRUE, data |-> d] : d \in StoredData}
    /\ directive = {} /\ faulty = None /\ lintLog = <<>>
    /\ oldText = Undefined /\ newText = Undefined
    /\ changes = <<>> /\ editorChange = <<>> /\ buffer = <<>>
    /\ IdleEditor /\ IdleBatch

LoadFrame == <<scenario, directive, faulty, oldText, newText, lintLog, changes,
               editorChange, buffer, notices, logged, thrown, activeFile, runs, vault, task,
               numberOfErrors, lintedFiles, folder, atDispatch, original, writes>>

\* loadSettings, lines 180-224
loadSettings ==
    /\ scenario = "load" /\ pc = "unloaded"
    /\ settings' = LoadedSettings(StoredSettings(stored))
    /\ pc' = "loaded"
    /\ UNCHANGED stored
    /\ UNCHANGED LoadFrame

\* saveSettings, lines 225-227
saveSettings(s) == [present |-> TRUE, data |-> s]

\* the 'Lint on save' toggle of the settings tab
SetLintOnSave ==
    /\ scenario = "load" /\ pc \in {"loaded", "saved"}
    /\ \E value \in BOOLEAN :
          /\ settings' = [settings EXCEPT !.lintOnSave = value]
          /\ stored' = saveSettings(settings')
    /\ pc' = "saved"
    /\ UNCHANGED LoadFrame

\* the 'Display message on lint' toggle of the settings tab
SetDisplayChanged ==
    /\ scenario = "load" /\ pc \in {"loaded", "saved"}
    /\ \E value \in BOOLEAN :
          /\ settings' = [settings EXCEPT !.displayChanged = value]
          /\ stored' = saveSettings(settings')
    /\ pc' = "saved"
    /\ UNCHANGED LoadFrame

\* the plugin is unloaded; the next load starts from the data file
onunload ==
    /\ scenario = "load" /\ pc \in {"loaded", "saved"}
    /\ pc' = "unloaded"
    /\ settings' = Undefined
    /\ UNCHANGED stored
    /\ UNCHANGED LoadFrame

NextLoad ==
    \/ loadSettings
    \/ SetLintOnSave
    \/ SetDisplayChanged
    \/ onunload

SpecLoad == InitLoad /\ [][NextLoad]_vars

\* the option map stored for a rule, empty when there is none
StoredOverrides(rule) ==
    LET d == StoredSettings(stored)
    IN  IF Has(d, "ruleConfigs") /\ Has(d.ruleConfigs, rule)
          THEN d.ruleConfigs[rule] ELSE <<>>

JustLoaded == scenario = "load" /\ pc = "loaded"

\* C10 as stated: after loadSettings every rule's option map has every key of
\* the rule's defaults, with the stored override of the key when there is one
\* and the default otherwise.
C10_DefaultsThenOverrides ==
    JustLoaded =>
        \A rule \in Aliases :
            LET m == settings.ruleConfigs[rule]
                d == getDefaultOptions(rule)
                o == StoredOverrides(rule)
            IN  /\ DOMAIN d \subseteq DOMAIN m
                /\ \A k \in DOMAIN d : m[k] = IF Has(o, k) THEN o[k] ELSE d[k]

\* C10, amended: after loadSettings every rule's option map has every key of
\* the rule's defaults; the enabled option has the value of the stored legacy
\* key 'Enabled' when the stored map has that key, and every other key (the
\* enabled option too, without a legacy key) has its stored override when
\* there is one and the default otherwise; the legacy key itself is dropped.
C10_DefaultsThenOverridesOrLegacy ==
    JustLoaded =>
        \A rule \in Aliases :
            LET m == settings.ruleConfigs[rule]
                d == getDefaultOptions(rule)
                o == StoredOverrides(rule)
            IN  /\ DOMAIN d \subseteq DOMAIN m
                /\ \A k \in DOMAIN d :
                      m[k] = IF k = enabledOptionName(rule) /\ Has(o, "Enabled")
                               THEN o["Enabled"]
                             ELSE IF Has(o, k) THEN o[k] ELSE d[k]
                /\ Has(o, "Enabled") => ~Has(m, "Enabled")

\* loaded settings where one rule has a stored override for one of its two
\* options only and the other rules have none
C10_Witness ==
    /\ JustLoaded
    /\ Has(StoredOverrides(YamlTimestamp), "dateModified")
    /\ ~StoredOverrides(YamlTimestamp)["dateModified"]
    /\ ~Has(StoredOverrides(YamlTimestamp), "enabled")
    /\ ~Has(StoredOverrides(YamlTimestamp), "Enabled")
    /\ StoredOverrides(GenericB) = <<>>
    /\ settings.ruleConfigs[GenericB] = getDefaultOptions(GenericB)

\* C19: after loadSettings, for every rule whose stored option map has the
\* legacy key 'Enabled' the rule's enabled option holds the legacy value,
\* also when the stored map has another value under the current name, and
\* no rule's option map has the key 'Enabled'.
C19_LegacyMigrated ==
    JustLoaded =>
        \A rule \in Aliases :
            LET m == settings.ruleConfigs[rule]
                o == StoredOverrides(rule)
            IN  /\ ~Has(m, "Enabled")
                /\ Has(o, "Enabled") =>
                      /\ Has(m, enabledOptionName(rule))
                      /\ m[enabledOptionName(rule)] = o["Enabled"]

\* loaded settings of a data file that has, for one rule, the legacy key and
\* the opposite value under the current name
C19_Witness ==
    /\ JustLoaded
    /\ \E rule \in Aliases :
          LET o == StoredOverrides(rule)
          IN  /\ Has(o, "Enabled") /\ Has(o, enabledOptionName(rule))
              /\ o["Enabled"] /\ ~o[enabledOptionName(rule)]
              /\ settings.ruleConfigs[rule][enabledOptionName(rule)]

----------------------------------------------------------------------------
(* The settings tab used while a run over files is in flight.  The tab's   *)
(* change handlers assign into the one settings object the plugin holds    *)
(* (this.plugin.settings), the object lintText hands to every rule.        *)

\* the rules whose 'enabled' toggle is used
ToggledRules == {GenericA, GenericB}
\* the values of the 'Override locale' dropdown
LocaleValues == {"system-default", "en"}

InitLive ==
    /\ scenario = "live"
    /\ pc = "idle"
    /\ settings = SettingsWith({GenericA, GenericB, YamlTimestamp})
    /\ directive = {GenericA}
    /\ faulty = GenericB
    /\ vault \in [Files -> {<<"a">>, <<"b">>}]
    /\ original = vault
    /\ task = [f \in Files |-> TaskIdle]
    /\ writes = [f \in Files |-> <<>>]
    /\ numberOfErrors = 0 /\ lintedFiles = 0 /\ folder = None /\ atDispatch = Undefined
    /\ oldText = Undefined /\ newText = Undefined /\ lintLog = <<>>
    /\ changes = <<>> /\ editorChange = <<>> /\ buffer = <<>>
    /\ IdleEditor /\ IdleLoad

LiveFrame == <<scenario, pc, directive, faulty, oldText, newText, lintLog, changes,
               editorChange, buffer, notices, logged, thrown, activeFile, vault,
               task,
               numberOfErrors, lintedFiles, folder, atDispatch, original, writes>>

\* a change handler of the settings tab has assigned `s` and saved it
SettingsChanged(s) ==
    /\ scenario = "live" /\ runs < MaxRuns
    /\ settings' = s
    /\ stored' = saveSettings(s)
    /\ runs' = runs + 1
    /\ UNCHANGED LiveFrame

\* the toggle a rule's 'enabled' option renders, line 543
SetRuleOption ==
    \E rule \in ToggledRules, value \in BOOLEAN :
        SettingsChanged([settings EXCEPT
                            !.ruleConfigs[rule][enabledOptionName(rule)] = value])

\* the 'Folders to ignore' text area, lines 516-526
SetFoldersToIgnore ==
    \E value \in TextAreaValues :
        SettingsChanged([settings EXCEPT !.foldersToIgnore = Split(value)])

\* the 'Override locale' dropdown, lines 548-569
SetLinterLocale ==
    \E value \in LocaleValues :
        SettingsChanged([settings EXCEPT !.linterLocale = value])

NextLive ==
    \/ runLinterAllFiles
    \/ runLinterAllFilesInFolder
    \/ \E f \in Files : ReadResolves(f)
    \/ \E f \in Files : ReadRejects(f)
    \/ \E f \in Files : ModifyResolves(f)
    \/ \E f \in Files : ModifyRejects(f)
    \/ BatchSummary
    \/ FolderSummary
    \/ SetRuleOption
    \/ SetFoldersToIgnore
    \/ SetLinterLocale

SpecLive == InitLive /\ [][NextLive]_vars

\* what of the settings a lint run reads: the rules' option maps, and the
\* locale the moment instance was set to
LintInputs(s) == <<s.ruleConfigs, s.linterLocale>>

\* C12 (as claimed): in a run over files during which settings-tab handlers fire, every
\* document that has been linted was linted against the settings values
\* that held when the run started: the settings its lintText call read are
\* those, and its text is what those settings give for its content.
C12_SettingsSnapshot ==
    (scenario = "live" /\ pc \in {"running", "finished"}) =>
        \A f \in Files :
            task[f].st \in {"writing", "done"} =>
                LET r == lintText(stripCr(original[f]), atDispatch, directive, faulty)
                IN  /\ LintInputs(task[f].used) = LintInputs(atDispatch)
                    /\ r.err = None
                    /\ r.text = task[f].text

----------------------------------------------------------------------------
(* Error reporting on the three paths that call handleLintError.           *)

\* the interactive path and the runs over files side by side
InitReport == Init \/ InitBatch
NextReport == Next \/ NextBatch
SpecReport == InitReport /\ [][NextReport]_vars

ErrorKinds == {"yaml-error", "error"}
ErrorNoticesOf(ns) == SelectSeq(ns, LAMBDA n : n.kind \in ErrorKinds)

\* this step is a run of runLinterEditor whose lintText call raised
EditorFailure ==
    scenario = "editor" /\ runs' = runs + 1 /\ newText' = Undefined

\* the tasks whose runLinterFile raised in this step
NewlyFailed ==
    IF scenario = "batch"
      THEN {f \in Files : task[f].st # "failed" /\ task'[f].st = "failed"}
      ELSE {}

\* the error a newly failed task raised
RaisedBy(f) ==
    IF task'[f].why = "lint"
      THEN lintText(stripCr(vault[f]), settings, directive, faulty).err
      ELSE IoError

\* the notice owed to an error: for a parse error the given opening
\* followed by what follows 'YAMLException:' in the error's string form
NoticeFor(error, opening) ==
    IF error = YAMLException
      THEN [kind |-> "yaml-error", text |-> opening \o <<" ">> \o ErrorMessage(error)]
      ELSE [kind |-> "error",
            text |-> <<"An error occurred during linting. See console for details">>]

LogPrefix ==
    IF scenario = "editor" THEN "Lint File Error in File '"
    ELSE IF folder' = None THEN "Lint All Files Error in File '"
    ELSE "Lint All Files in Folder Error in File '"

\* one notice of the right kind and one log entry naming the path and
\* holding the error were added by this step
HandledOnce(path, error) ==
    /\ Len(notices') = Len(notices) + 1
    /\ notices'[Len(notices')].kind =
          IF error = YAMLException THEN "yaml-error" ELSE "error"
    /\ logged' = Append(logged, [text |-> <<LogPrefix, path, "'">>, error |-> error])

\* a step without a lint failure reports none
NoFailureNoReport ==
    (~EditorFailure /\ NewlyFailed = {}) =>
        /\ logged' = logged
        /\ ErrorNoticesOf(notices') = ErrorNoticesOf(notices)

C21_Once ==
    /\ EditorFailure =>
          HandledOnce(ActiveFile, lintText(buffer, settings, directive, faulty).err)
    /\ \A f \in NewlyFailed : HandledOnce(f, RaisedBy(f))
    /\ NoFailureNoReport

C21_QuotesPath ==
    \A i \in 1..Len(notices) :
        notices[i].kind = "yaml-error" =>
            /\ \E path \in Files \cup {ActiveFile} : Contains(notices[i].text, path)
            /\ EndsWith(notices[i].text, <<" ">> \o ErrorMessage(YAMLException))

C21_Handled ==
    /\ C21_Once
    /\ EditorFailure =>
          notices' = Append(notices,
              NoticeFor(lintText(buffer, settings, directive, faulty).err,
                        <<"There is an error in the yaml: ">>))
    /\ \A f \in NewlyFailed :
          notices' = Append(notices,
              NoticeFor(RaisedBy(f), <<"There is an error in the yaml of file '", f, "': ">>))

----------------------------------------------------------------------------
(* Lint on save: the callback onload puts in place of the one of the       *)
(* 'editor:save-file' command, lines 147-163, with the settings tab's      *)
(* 'Lint on save' toggle and the command 'Lint the current file'.          *)

\* what the 'Folders to ignore' text area held when the settings were saved
SaveTextAreaValues == {<<>>, <<"a">>, <<"a", "b", LF>>}

\* the settings onload loaded: lint on save is off unless it was stored
SaveSettings ==
    {[SettingsWith({GenericA, GenericB}) EXCEPT !.foldersToIgnore = ig] :
        ig \in {<<>>} \cup {Split(v) : v \in SaveTextAreaValues}}

\* the state after onload, the save callback installed
InitSave ==
    /\ scenario = "save"
    /\ pc = "ready"
    /\ DocSetup(buffer, directive, faulty)
    /\ settings \in SaveSettings
    /\ activeFile \in Files
    /\ oldText = Undefined /\ newText = Undefined /\ lintLog = <<>>
    /\ changes = <<>> /\ editorChange = <<>>
    /\ notices = <<>> /\ logged = <<>> /\ thrown = None /\ runs = 0
    /\ IdleBatch /\ IdleLoad

\* the save callback running the linter whatever the settings are
SaveFile_Always ==
    /\ scenario = "save"
    /\ runLinterEditorThen("saved")

\* saveCommandDefinition.callback, lines 153-162
SaveFile ==
    /\ scenario = "save"
    /\ IF settings.lintOnSave /\ ~shouldIgnoreFile(activeFile, settings)
         THEN runLinterEditorThen("saved")
         ELSE /\ pc' = "saved"
              /\ UNCHANGED <<scenario, settings, directive, faulty, oldText, newText,
                             lintLog, changes, editorChange, buffer, notices, logged,
                             thrown, activeFile, runs, vault, task, numberOfErrors,
                             lintedFiles, folder, atDispatch, original, writes, stored>>

\* the 'Lint on save' toggle of the settings tab, lines 492-502
ToggleLintOnSave ==
    /\ scenario = "save"
    /\ \E value \in BOOLEAN :
          /\ settings' = [settings EXCEPT !.lintOnSave = value]
          /\ stored' = saveSettings(settings')
    /\ pc' = "toggled"
    /\ UNCHANGED <<scenario, directive, faulty, oldText, newText, lintLog, changes,
                   editorChange, buffer, notices, logged, thrown, activeFile, runs,
                   vault, task, numberOfErrors, lintedFiles, folder, atDispatch,
                   original, writes>>

NextSave ==
    \/ SaveFile
    \/ runLinterEditor
    \/ ToggleLintOnSave

SpecSave == InitSave /\ [][NextSave]_vars

\* the path lies in the folder the entry names
UnderFolder(file, entry) ==
    /\ entry # <<>>
    /\ StartsWith(PathChars(file),
                  IF entry[Len(entry)] = "/" THEN entry ELSE entry \o <<"/">>)
UnderIgnoredFolder(file, s) ==
    \E i \in 1..Len(s.foldersToIgnore) : UnderFolder(file, s.foldersToIgnore[i])

\* this step ran runLinterEditor on the active editor
LinterRan == runs' = runs + 1 /\ oldText' = buffer

\* a step of the command 'Lint the current file' ran the linter, whatever
\* the settings and the path are
LintFileRuns == (scenario = "save" /\ pc' = "linted") => LinterRan

C22_SaveStep ==
    (scenario = "save" /\ pc' = "saved") =>
        (LinterRan <=> (settings.lintOnSave /\ ~UnderIgnoredFolder(activeFile, settings)))

\* C22 (as claimed): a save runs the linter on the active editor if and only
\* if, at that moment, lint-on-save is true and the active file's path is
\* not under an ignored folder; the toggle needs no reload; the command
\* 'Lint the current file' runs the linter regardless of both.
C22_LintOnSave ==
    [][C22_SaveStep /\ LintFileRuns]_vars

C22_SaveStepPrefix ==
    (scenario = "save" /\ pc' = "saved") =>
        (LinterRan <=>
            (settings.lintOnSave /\ ~HasIgnoredPrefix(activeFile, settings.foldersToIgnore)))

\* C22 (amended): a save runs the linter on the active editor if and only
\* if, at that moment, lint-on-save is true and the active file's path does
\* not start with a non-empty entry of the ignored-folder list (an entry
\* "a" also keeps "ab/2" from being linted); the value the toggle set last
\* decides, without a reload; the command 'Lint the current file' runs the
\* linter regardless of both.
C22_LintOnSavePrefix ==
    [][C22_SaveStepPrefix /\ LintFileRuns]_vars

\* a save has just run the linter: lint on save was off after loading and
\* was switched on in the settings tab
C22_Witness ==
    /\ scenario = "save" /\ pc = "saved" /\ runs = 1
    /\ stored # NoData /\ settings.lintOnSave
    /\ ~shouldIgnoreFile(activeFile, settings)
    /\ oldText # Undefined

=============================================================================
